---- MODULE Spec2Model ----
(***************************************************************************)
(* Model of the Moltbook agent of mna-universe: the conversation store,    *)
(* the comment tree walkers and the heartbeat of AliceMoltbookAgent        *)
(* (agent.ts), driven by a platform that answers every call with success,  *)
(* an error or a rate limit (HTTP 429).                                    *)
(*                                                                         *)
(* A platform comment is a record [post, parent, author, content]; its id  *)
(* is its position in the platform's comment list (the platform issues a   *)
(* new id for every comment), parent = 0 marks a top-level comment, and    *)
(* the replies of a comment are its children in platform order.            *)
(***************************************************************************)
EXTENDS Integers, Sequences, FiniteSets, TLC

\* ------------------------------------------------------------ bounds
MaxTreeSize == 5
MaxReplies == 2
MaxTime == 3600
MaxTracked == 52
MaxEarly == 2
EarlyCron == 10
LiveConvs == 3
MaxThread == 4
MaxPending == 3
MaxTicks == 6
MaxWords == 3
MaxKeys == 2
MaxClock == 12
MaxFetches == 3

\* ------------------------------------------------- program constants
StoreCap == 50
RecentPostsCap == 20
CommentCooldown == 20
PostCooldown == 1800
SummaryThreshold == 4
CronPeriod == 1800
\* minutes
CACHE_TTL == 5
DISK_CACHE_MAX_AGE == 30

agentName == "alice"
otherName == "bob"
Authors == {agentName, otherName}

NoTime == -1
NoComment == 0
NoSummary == <<>>
NoReply == [reply |-> 0, parentAliceComment |-> 0]

\* ------------------------------------------------------------- helpers
Includes(s, x) == \E i \in 1..Len(s) : s[i] = x

Min(a, b) == IF a < b THEN a ELSE b

\* Array.prototype.slice(-n): the last n elements
SliceLast(s, n) ==
  IF Len(s) <= n THEN s ELSE SubSeq(s, Len(s) - n + 1, Len(s))

RECURSIVE SetToSeq(_)
SetToSeq(S) ==
  IF S = {} THEN <<>>
  ELSE LET m == CHOOSE x \in S : \A y \in S : x <= y
       IN <<m>> \o SetToSeq(S \ {m})

\* comment.replies: the children of comment c, in platform order
Replies(cs, c) ==
  SelectSeq([j \in 1..Len(cs) |-> j], LAMBDA j : cs[j].parent = c)

\* ------------------------------------------------- comment tree walker
RECURSIVE collectThread(_, _)
RECURSIVE collectBranch(_, _)
\* the for loop of collectThread: the first reply whose sub-thread has a
\* message by the agent, or that is not by the agent, is followed
collectBranch(cs, rs) ==
  IF rs = <<>> THEN <<>>
  ELSE LET reply == Head(rs)
           subThread == collectThread(cs, reply)
       IN IF (\E k \in 1..Len(subThread) : cs[subThread[k]].author = agentName)
             \/ cs[reply].author # agentName
          THEN subThread
          ELSE collectBranch(cs, Tail(rs))

\* the thread as the list of the ids of its messages
collectThread(cs, comment) == <<comment>> \o collectBranch(cs, Replies(cs, comment))

RECURSIVE findUnansweredReply(_, _, _)
RECURSIVE findInReplies(_, _, _, _)
\* the same loop with every reply of the comment tested before any
\* recursion (a level-first search)
findInRepliesLevelFirst(cs, comment, rs, seenIds) ==
  LET hits == {r \in {rs[k] : k \in 1..Len(rs)} :
                 /\ cs[comment].author = agentName
                 /\ cs[r].author # agentName
                 /\ ~Includes(seenIds, r)}
      deeper == {r \in {rs[k] : k \in 1..Len(rs)} :
                 findUnansweredReply(cs, r, seenIds) # NoReply}
  IN IF hits # {}
     THEN [reply |-> CHOOSE r \in hits : \A q \in hits : r <= q,
           parentAliceComment |-> comment]
     ELSE IF deeper # {}
     THEN findUnansweredReply(cs, CHOOSE r \in deeper : \A q \in deeper : r <= q, seenIds)
     ELSE NoReply

\* the same loop passing over a seen reply without searching below it
RECURSIVE findInRepliesSkipSeen(_, _, _, _)
findInRepliesSkipSeen(cs, comment, rs, seenIds) ==
  IF rs = <<>> THEN NoReply
  ELSE LET reply == Head(rs)
       IN IF Includes(seenIds, reply)
          THEN findInRepliesSkipSeen(cs, comment, Tail(rs), seenIds)
          ELSE IF cs[comment].author = agentName /\ cs[reply].author # agentName
          THEN [reply |-> reply, parentAliceComment |-> comment]
          ELSE LET deeper == findUnansweredReply(cs, reply, seenIds)
               IN IF deeper # NoReply THEN deeper
                  ELSE findInRepliesSkipSeen(cs, comment, Tail(rs), seenIds)

\* the for loop of findUnansweredReply over the remaining replies rs
findInReplies(cs, comment, rs, seenIds) ==
  IF rs = <<>> THEN NoReply
  ELSE LET reply == Head(rs)
       IN IF /\ cs[comment].author = agentName
             /\ cs[reply].author # agentName
             /\ ~Includes(seenIds, reply)
          THEN [reply |-> reply, parentAliceComment |-> comment]
          ELSE LET deeper == findUnansweredReply(cs, reply, seenIds)
               IN IF deeper # NoReply THEN deeper
                  ELSE findInReplies(cs, comment, Tail(rs), seenIds)

findUnansweredReply(cs, comment, seenIds) ==
  findInReplies(cs, comment, Replies(cs, comment), seenIds)

\* findCommentById over the comment forest of one post
findCommentById(cs, postId, id) ==
  IF id \in 1..Len(cs) /\ cs[id].post = postId THEN id ELSE NoComment


\* ------------------------------------------------------ the platform
\* the posts of the platform: 1 and 2 are relevant posts by another agent,
\* 3 is a post of the agent itself
PostInfo ==
  << [author |-> otherName, relevant |-> TRUE],
     [author |-> otherName, relevant |-> TRUE],
     [author |-> agentName, relevant |-> TRUE] >>

\* what getPosts may return to interpretEnvironment (<<>> also when it fails)
Feeds == {<<>>, <<3, 2, 1>>}

\* what the platform answers to getPost followed by createReply
ScanOutcomes == {"fetchErr", "fetch429", "ok", "replyErr", "reply429"}
\* what the platform answers to createPost or createComment
SubmitOutcomes == {"ok", "err", "rate429"}

VARIABLES
  store,            \* conversations.json: [conversations, recentPosts]
  comments,         \* the platform's comments
  lastPostTime,     \* AliceMoltbookAgent.lastPostTime
  lastCommentTime,  \* AliceMoltbookAgent.lastCommentTime
  now,              \* the clock (Date.now()), in seconds
  due,              \* the launcher is about to call heartbeat
  pc,               \* where the heartbeat in progress is: idle, scan, exec, patrol
  feed,             \* state.moltbookPosts of the heartbeat in progress
  scanStore,        \* the store loaded by checkForReplies
  scanIdx,          \* the conversation the scan of checkForReplies is at
  repliesSent,      \* repliesSent of checkForReplies
  decisions,        \* the decisions of decideActions still to execute
  hbResult,         \* how the last heartbeat ended: none, completed, caught, thrown
  tracked,          \* history: every (postId, commentId) tracked, in order
  lastOk,           \* history: when createPost, and createComment or createReply,
                    \* last returned without error in this process
  accepted,         \* history: the comment createComment returned for in this
                    \* heartbeat, with whether the answer carried its id and
                    \* the conversation was written to the store
  \* history of the heartbeat in progress
  replyCalls,       \* createReply invocations of checkForReplies
  lastOutcome,      \* what happened to the conversation scanned last
  limited,          \* a submission was answered 429
  scanLimited,      \* a call of the scan was answered 429
  fetches,          \* getPost invocations of checkForReplies
  lateSubmit,       \* a submission was attempted after one was answered 429
  lastGen,          \* the last summarizeThread / generateReply calls of the scan
  \* history of the comment budget
  lastGap,          \* seconds between the last two successful comments or replies
  \* history of consecutive checkForReplies calls
  callQuiet,        \* no reply arrived since the current call began (until
                    \* the scan ends)
  callClean,        \* the current call began with at most one unanswered
                    \* reply and nothing it did failed
  prevCall,         \* the call whose scan ended last: none, noisy (a reply
                    \* arrived since it began), good (quiet and clean), quiet
  wTree, wSeen, wResult, wDone,  \* the walker specification's inputs and result
  wThread,          \* collectThread(rootComment) of the walker specification
  wFull,            \* fullThread of checkForReplies for the reply found
  \* the reply scan over many heartbeats
  pending,          \* per stored conversation, its number of unanswered replies
  lastAnswered,     \* the conversation the last checkForReplies call answered
  \* the launchers
  launcher,         \* runner (the standalone cron runner) or server (the API server)
  mainPc,           \* the launching code: start, awaitInitial, scheduled
  initialRunning,   \* the heartbeat() called at launch has not settled
  cronRunning,      \* heartbeat() calls of the CronJob callback not yet settled
  cronWaits,        \* the CronJob holds a tick back while its callback runs
  ticks,            \* cron ticks so far
  \* the challenge solver
  sChallenge,       \* the challenge text handed to solveChallenge
  sSolver,          \* what became of the generation-backed solver
  sText,            \* the text of the generator's response
  sAnswer,          \* what solveChallenge returned
  sThrew,           \* solveChallenge threw
  sFellBack,        \* regexSolveChallenge was run
  sNumbers,         \* the numbers regexSolveChallenge extracted
  sOperation,       \* the operation regexSolveChallenge detected
  sDone,            \* solveChallenge has settled
  \* the API server's access control
  keyStore,         \* config/api-keys.json: the key records, in creation order
  aUrl,             \* the URL of the last request below /api/
  aKey,             \* the key that request presented
  aAuth,            \* req.auth as authMiddleware set it
  aStatus,          \* what became of the request: 429, 403, or handler
  \* the API server's land cache
  landCache,        \* the number of lands in the memory cache
  lastFetch,        \* when the memory cache was filled, in minutes
  diskCache,        \* cache/lands.json: [lands, timestamp], or none
  refreshInProgress,
  inFlight,         \* the fetchLandsFromAPI calls not yet settled, by caller
  started,          \* the app.listen callback has run
  clock             \* Date.now(), in minutes

walkVars == <<wTree, wSeen, wResult, wDone, wThread, wFull>>
liveVars == <<pending, lastAnswered>>
cronVars == <<launcher, mainPc, initialRunning, cronRunning, cronWaits, ticks>>
solverVars == <<sChallenge, sSolver, sText, sAnswer, sThrew, sFellBack, sNumbers,
                sOperation, sDone>>
accessVars == <<keyStore, aUrl, aKey, aAuth, aStatus>>
landVars == <<landCache, lastFetch, diskCache, refreshInProgress, inFlight, started,
             clock>>
serverVars == <<accessVars, landVars>>
auxVars == <<cronVars, solverVars, serverVars>>
sideVars == <<walkVars, liveVars, auxVars>>
agentVars == <<store, comments, lastPostTime, lastCommentTime, now, due>>
hbVars == <<pc, feed, scanStore, scanIdx, repliesSent, decisions, hbResult>>
hbHist == <<replyCalls, fetches, lastOutcome, limited, scanLimited, lateSubmit,
            lastGen>>
callHist == <<callQuiet, callClean, prevCall>>
trackHist == <<tracked, accepted, lastOk>>
vars == <<agentVars, hbVars, trackHist, hbHist, lastGap, callHist, sideVars>>

\* ------------------------------------------------ conversation store
EmptyStore == [conversations |-> <<>>, recentPosts |-> <<>>]

\* a TrackedConversation as trackComment creates it (createdAt, which no
\* code reads, is left out); a summary is held as the list of the messages
\* it was made from
NewConversation(postId, commentId) ==
  [postId |-> postId, commentId |-> commentId,
   lastSeenReplyIds |-> <<>>, summary |-> NoSummary]

\* what saveConversations writes to the file
saveConversations(st) ==
  [st EXCEPT !.conversations = SliceLast(@, StoreCap)]

trackPost(st, title) ==
  saveConversations(
    [st EXCEPT !.recentPosts = SliceLast(Append(@, title), RecentPostsCap)])

\* trackComment that pushes the conversation twice
trackCommentTwice(st, postId, commentId) ==
  saveConversations(
    [st EXCEPT !.conversations =
       Append(Append(@, NewConversation(postId, commentId)),
              NewConversation(postId, commentId))])

\* trackComment that keeps the first StoreCap conversations
trackCommentKeepOldest(st, postId, commentId) ==
  [st EXCEPT !.conversations =
     LET all == Append(@, NewConversation(postId, commentId))
     IN SubSeq(all, 1, Min(Len(all), StoreCap))]

trackComment(st, postId, commentId) ==
  saveConversations(
    [st EXCEPT !.conversations = Append(@, NewConversation(postId, commentId))])

\* ------------------------------------------------------- decideActions
findRelevantPost(posts) ==
  LET ok == {k \in 1..Len(posts) :
               PostInfo[posts[k]].author # agentName /\ PostInfo[posts[k]].relevant}
  IN IF ok = {} THEN 0 ELSE posts[CHOOSE k \in ok : \A j \in ok : k <= j]

decideActions(t, lpt, lct, posts) ==
  LET canPost == lpt = NoTime \/ (t - lpt) > PostCooldown
      canComment == lct = NoTime \/ (t - lct) > CommentCooldown
      relevantPost == findRelevantPost(posts)
      actions ==
        (IF canPost THEN <<[action |-> "post", target |-> 0]>> ELSE <<>>)
        \o (IF canComment /\ Len(posts) > 0 /\ relevantPost # 0
            THEN <<[action |-> "comment", target |-> relevantPost]>> ELSE <<>>)
  IN IF Len(actions) > 0 THEN actions ELSE <<[action |-> "observe", target |-> 0]>>

\* ----------------------------------------------------- checkForReplies
\* the thread handed on: collectThread plus the reply, unless a message of
\* the thread has the reply's content
fullThreadOf(cs, root, reply) ==
  LET t == collectThread(cs, root)
  IN IF \E k \in 1..Len(t) : cs[t[k]].content = cs[reply].content
     THEN t ELSE Append(t, reply)

\* fullThread.slice(0, -2) and fullThread.slice(-2)
olderMessages(thread) == SubSeq(thread, 1, Len(thread) - 2)

recentMessages(thread) == SliceLast(thread, 2)

\* a threshold test with >= for >
summarizesAtThreshold(convo, thread) ==
  /\ Len(thread) >= SummaryThreshold
  /\ (convo.summary = NoSummary \/ Len(olderMessages(thread)) > SummaryThreshold)

\* whether checkForReplies calls summarizeThread for this thread
summarizes(convo, thread) ==
  /\ Len(thread) > SummaryThreshold
  /\ (convo.summary = NoSummary \/ Len(olderMessages(thread)) > SummaryThreshold)

\* the thread handed to generateReply
threadForLLM(thread) ==
  IF Len(thread) > SummaryThreshold THEN recentMessages(thread) ELSE thread

\* no call yet: the thread built, the number of summarizeThread calls and
\* their argument, the thread and summary given to generateReply, and the
\* summary that was stored before
NoGen == [full |-> <<>>, calls |-> 0, summarized |-> <<>>, thread |-> <<>>,
          summary |-> NoSummary, stored |-> NoSummary]

\* the summary is replaced whatever the length of the thread
summaryAfterAlways(convo, thread) == olderMessages(thread)

\* convo.summary after the summarization step for this thread
summaryAfter(convo, thread) ==
  IF summarizes(convo, thread) THEN olderMessages(thread) ELSE convo.summary

\* what happens to conversation convo when the platform answers `outcome`:
\* none when the root comment is gone or no reply is unanswered
realised(cs, convo, outcome) ==
  IF outcome \in {"fetchErr", "fetch429"} THEN outcome
  ELSE LET root == findCommentById(cs, convo.postId, convo.commentId)
       IN IF root = NoComment THEN "none"
          ELSE IF findUnansweredReply(cs, root, convo.lastSeenReplyIds) = NoReply
          THEN "none" ELSE outcome

\* the scan stops at the first error of any kind
scanContinuesNoError(oc) == oc = "none"

\* the scan goes on after a rate limit as after any other error
scanContinuesPast429(oc) ==
  oc \in {"none", "fetchErr", "replyErr", "fetch429", "reply429"}

\* whether the for loop goes on to the next conversation: it breaks after a
\* reply and after a rate limit, other errors are logged
scanContinues(oc) == oc \in {"none", "fetchErr", "replyErr"}

\* a reply that is not recorded in lastSeenReplyIds
markSeenNot(seenIds, reply) == seenIds

\* convo.lastSeenReplyIds.push(reply.id)
markSeen(seenIds, reply) == Append(seenIds, reply)

\* a heartbeat without its try/catch
heartbeatNoCatch(e) == IF e THEN "thrown" ELSE "completed"

\* the try/catch of heartbeat: how it ends when its body threw (e) or not
heartbeatEnds(e) == IF e THEN "caught" ELSE "completed"

NoOk == [post |-> NoTime, comment |-> NoTime]

\* the timestamp is set as soon as the submission is attempted
stampsOnAttempt(attempted, ok) == attempted

\* lastPostTime and lastCommentTime are assigned on the line after the awaited
\* submission, which a rejected submission never reaches
stampsOn(attempted, ok) == ok

NoAccepted == [post |-> 0, id |-> NoComment, withId |-> FALSE, written |-> FALSE]

\* every published comment is tracked, with or without an id in the answer
tracksCommentAlways(commented, withId) == commented

\* executeAction tracks a published comment when the answer of createComment
\* carries its id (comment.id or content_id)
tracksComment(commented, withId) == commented /\ withId

\* the catch of executeAction: a rate limit is swallowed, any other error
\* is thrown again
executeActionThrows(outcome) == outcome = "err"

RECURSIVE PreOrder(_, _)
RECURSIVE PreOrderAll(_, _)
PreOrderAll(cs, rs) ==
  IF rs = <<>> THEN <<>> ELSE PreOrder(cs, Head(rs)) \o PreOrderAll(cs, Tail(rs))

\* the comments below c (c first) in depth-first, left-to-right order
PreOrder(cs, c) == <<c>> \o PreOrderAll(cs, Replies(cs, c))

\* the replies below root that are directed at the agent and not yet seen
Candidates(cs, root, seenIds) ==
  LET po == PreOrder(cs, root)
  IN {r \in {po[k] : k \in 2..Len(po)} :
        /\ cs[cs[r].parent].author = agentName
        /\ cs[r].author # agentName
        /\ ~Includes(seenIds, r)}

\* the unanswered replies of all tracked conversations
PendingReplies(st, cs) ==
  UNION {LET c == st.conversations[i]
             root == findCommentById(cs, c.postId, c.commentId)
         IN IF root = NoComment THEN {}
            ELSE Candidates(cs, root, c.lastSeenReplyIds) :
         i \in 1..Len(st.conversations)}

\* -------------------------------------------------------- initial state
InitAgent ==
  /\ store = EmptyStore
  /\ comments = <<>>
  /\ lastPostTime = NoTime
  /\ lastCommentTime = NoTime
  /\ now = 0
  /\ due = TRUE
  /\ pc = "idle"
  /\ feed = <<>>
  /\ scanStore = EmptyStore
  /\ scanIdx = 0
  /\ repliesSent = 0
  /\ decisions = <<>>
  /\ hbResult = "none"

InitHist ==
  /\ tracked = <<>>
  /\ accepted = NoAccepted
  /\ lastOk = NoOk
  /\ replyCalls = 0
  /\ fetches = 0
  /\ lastOutcome = "none"
  /\ lastGen = NoGen
  /\ limited = FALSE
  /\ scanLimited = FALSE
  /\ lateSubmit = FALSE
  /\ lastGap = NoTime
  /\ callQuiet = FALSE
  /\ callClean = FALSE
  /\ prevCall = "none"

InitWalkIdle ==
  /\ wTree = <<>>
  /\ wSeen = <<>>
  /\ wResult = NoReply
  /\ wDone = FALSE
  /\ wThread = <<>>
  /\ wFull = <<>>

InitLiveIdle ==
  /\ pending = <<>>
  /\ lastAnswered = 0

InitCronIdle ==
  /\ launcher = "none"
  /\ mainPc = "start"
  /\ initialRunning = FALSE
  /\ cronRunning = 0
  /\ cronWaits = FALSE
  /\ ticks = 0

InitSolverIdle ==
  /\ sChallenge = <<>>
  /\ sSolver = "none"
  /\ sText = <<>>
  /\ sAnswer = <<>>
  /\ sThrew = FALSE
  /\ sFellBack = FALSE
  /\ sNumbers = <<>>
  /\ sOperation = "none"
  /\ sDone = FALSE

NoKey == [prefix |-> "", id |-> 0]
NoHash == <<>>
FreeAuth == [tier |-> "free", keyHash |-> NoHash]

InitAccessIdle ==
  /\ keyStore = <<>>
  /\ aUrl = <<>>
  /\ aKey = NoKey
  /\ aAuth = FreeAuth
  /\ aStatus = "none"

NoDisk == [lands |-> 0, timestamp |-> -1000]

InitLandsIdle ==
  /\ landCache = 0
  /\ lastFetch = 0
  /\ diskCache = NoDisk
  /\ refreshInProgress = FALSE
  /\ inFlight = <<>>
  /\ started = FALSE
  /\ clock = 0

InitServerIdle == InitAccessIdle /\ InitLandsIdle

InitAuxIdle == InitCronIdle /\ InitSolverIdle /\ InitServerIdle

Init == InitAgent /\ InitHist /\ InitWalkIdle /\ InitLiveIdle /\ InitAuxIdle

\* ------------------------------------------------------------ heartbeat
\* the heartbeat is over: its locals and its history are dropped
EndHeartbeat(threw) ==
  /\ pc' = "idle"
  /\ hbResult' = heartbeatEnds(threw)
  /\ feed' = <<>>
  /\ scanStore' = EmptyStore
  /\ scanIdx' = 0
  /\ repliesSent' = 0
  /\ decisions' = <<>>
  /\ replyCalls' = 0
  /\ fetches' = 0
  /\ lastOutcome' = "none"
  /\ lastGen' = NoGen
  /\ limited' = FALSE
  /\ scanLimited' = FALSE
  /\ lateSubmit' = FALSE

\* heartbeat up to the first getPost of checkForReplies: interpretEnvironment
\* (f is what getPosts returned, <<>> when it failed) and loadConversations
HeartbeatStart(f) ==
  /\ pc = "idle"
  /\ due
  /\ due' = FALSE
  /\ pc' = "scan"
  /\ feed' = f
  /\ scanStore' = store
  /\ scanIdx' = 1
  /\ repliesSent' = 0
  /\ decisions' = <<>>
  /\ callQuiet' = TRUE
  /\ callClean' = (Cardinality(PendingReplies(store, comments)) <= 1)
  /\ accepted' = NoAccepted
  /\ hbResult' = "none"
  /\ lastGap' = NoTime
  /\ UNCHANGED <<store, comments, lastPostTime, lastCommentTime, now,
                 tracked, lastOk, hbHist, prevCall, sideVars>>

\* one turn of the for loop of checkForReplies, on the conversation at
\* scanIdx; outcome is what the platform answers to getPost and createReply
ScanStep(outcome) ==
  /\ pc = "scan"
  /\ scanIdx <= Len(scanStore.conversations)
  /\ LET convo == scanStore.conversations[scanIdx]
         oc == realised(comments, convo, outcome)
         root == findCommentById(comments, convo.postId, convo.commentId)
         reply == findUnansweredReply(comments, root, convo.lastSeenReplyIds).reply
         called == oc \in {"ok", "replyErr", "reply429"}
         newId == Len(comments) + 1
         summarised ==
           IF called
           THEN [convo EXCEPT !.summary =
                   summaryAfter(convo, fullThreadOf(comments, root, reply))]
           ELSE convo
         replied ==
           IF oc = "ok"
           THEN [summarised EXCEPT !.lastSeenReplyIds = markSeen(@, reply)]
           ELSE summarised
     IN /\ scanStore' = [scanStore EXCEPT !.conversations[scanIdx] = replied]
        /\ comments' = IF oc = "ok"
                       THEN Append(comments, [post |-> convo.postId, parent |-> reply,
                                              author |-> agentName, content |-> newId])
                       ELSE comments
        /\ lastCommentTime' = IF stampsOn(called, oc = "ok") THEN now
                              ELSE lastCommentTime
        /\ lastOk' = IF oc = "ok" THEN [lastOk EXCEPT !.comment = now] ELSE lastOk
        /\ lastGap' = IF oc = "ok" /\ lastCommentTime # NoTime
                      THEN now - lastCommentTime ELSE lastGap
        /\ repliesSent' = IF oc = "ok" THEN repliesSent + 1 ELSE repliesSent
        /\ scanIdx' = IF scanContinues(oc) THEN scanIdx + 1
                      ELSE Len(scanStore.conversations) + 1
        /\ fetches' = fetches + 1
        /\ replyCalls' = IF called THEN replyCalls + 1 ELSE replyCalls
        /\ lastOutcome' = oc
        /\ lastGen' =
             IF called /\ Len(fullThreadOf(comments, root, reply)) >= SummaryThreshold
             THEN LET thread == fullThreadOf(comments, root, reply)
                  IN [full |-> thread,
                      calls |-> IF summarizes(convo, thread) THEN 1 ELSE 0,
                      summarized |-> IF summarizes(convo, thread)
                                     THEN olderMessages(thread) ELSE <<>>,
                      thread |-> threadForLLM(thread),
                      summary |-> summaryAfter(convo, thread),
                      stored |-> convo.summary]
             ELSE lastGen
        /\ lateSubmit' = (lateSubmit \/ (limited /\ called))
        /\ limited' = (limited \/ oc = "reply429")
        /\ scanLimited' = (scanLimited \/ oc \in {"fetch429", "reply429"})
        /\ callClean' = (callClean /\ oc \in {"none", "ok"})
  /\ UNCHANGED <<store, lastPostTime, now, due, pc, feed, decisions, hbResult,
                 tracked, accepted, callQuiet, prevCall, sideVars>>

\* the end of checkForReplies, saveConversations (which fails when the file
\* cannot be written) unless the store was empty, and decideActions
ScanEnd(writeOk) ==
  /\ pc = "scan"
  /\ scanIdx > Len(scanStore.conversations)
  /\ LET empty == Len(scanStore.conversations) = 0
         threw == ~empty /\ ~writeOk
     IN /\ store' = IF empty \/ threw THEN store ELSE saveConversations(scanStore)
        /\ prevCall' = IF ~callQuiet THEN "noisy"
                       ELSE IF callClean /\ ~threw THEN "good" ELSE "quiet"
        /\ IF threw
           THEN EndHeartbeat(TRUE)
           ELSE /\ pc' = "exec"
                /\ decisions' = decideActions(now, lastPostTime, lastCommentTime, feed)
                /\ lastGen' = NoGen
                /\ UNCHANGED <<feed, scanStore, scanIdx, repliesSent, hbResult,
                               replyCalls, fetches, lastOutcome, limited,
                               scanLimited, lateSubmit>>
  /\ callQuiet' = FALSE
  /\ callClean' = FALSE
  /\ UNCHANGED <<comments, lastPostTime, lastCommentTime, now, due, trackHist,
                 lastGap, sideVars>>

\* executeAction on the next decision; outcome is what the platform answers
\* to createPost or createComment, withId whether the answer carries the
\* comment's id, writeOk whether the store file can be written
ExecStep(outcome, withId, writeOk) ==
  /\ pc = "exec"
  /\ decisions # <<>>
  /\ LET d == Head(decisions)
         submits == d.action \in {"post", "comment"}
         ok == submits /\ outcome = "ok"
         posted == d.action = "post" /\ ok
         commented == d.action = "comment" /\ ok
         tracks == tracksComment(commented, withId)
         writes == posted \/ tracks
         newId == Len(comments) + 1
         threw == (submits /\ executeActionThrows(outcome)) \/ (writes /\ ~writeOk)
     IN /\ lastPostTime' = IF stampsOn(d.action = "post", posted) THEN now
                           ELSE lastPostTime
        /\ lastCommentTime' = IF stampsOn(d.action = "comment", commented) THEN now
                              ELSE lastCommentTime
        /\ lastOk' = [post |-> IF posted THEN now ELSE lastOk.post,
                      comment |-> IF commented THEN now ELSE lastOk.comment]
        /\ lastGap' = IF commented /\ lastCommentTime # NoTime
                      THEN now - lastCommentTime ELSE lastGap
        /\ comments' = IF commented
                       THEN Append(comments, [post |-> d.target, parent |-> 0,
                                              author |-> agentName, content |-> newId])
                       ELSE comments
        /\ store' = IF writes /\ writeOk
                    THEN IF posted THEN trackPost(store, "title")
                         ELSE trackComment(store, d.target, newId)
                    ELSE store
        /\ tracked' = IF tracks /\ writeOk THEN Append(tracked, <<d.target, newId>>)
                      ELSE tracked
        /\ accepted' = IF commented
                       THEN [post |-> d.target, id |-> newId, withId |-> withId,
                             written |-> withId /\ writeOk]
                       ELSE accepted
        /\ IF threw
           THEN EndHeartbeat(TRUE)
           ELSE /\ decisions' = Tail(decisions)
                /\ pc' = IF Tail(decisions) = <<>> THEN "patrol" ELSE "exec"
                /\ lateSubmit' = (lateSubmit \/ (limited /\ submits))
                /\ limited' = (limited \/ (submits /\ outcome = "rate429"))
                /\ UNCHANGED <<feed, scanStore, scanIdx, repliesSent, hbResult,
                               replyCalls, fetches, lastOutcome, scanLimited,
                               lastGen>>
  /\ UNCHANGED <<now, due, callHist, sideVars>>

\* upvotePatrol, which swallows every error of getPost and vote, and the
\* end of the heartbeat
Patrol ==
  /\ pc = "patrol"
  /\ EndHeartbeat(FALSE)
  /\ accepted' = NoAccepted
  /\ UNCHANGED <<agentVars, tracked, lastOk, lastGap, callHist, sideVars>>

\* ---------------------------------------------------------- environment
\* another user replies to an existing comment; a reply that arrives while
\* executeAction or upvotePatrol runs is first read by the next heartbeat, as
\* one that arrives right after the heartbeat
EnvReplyUpTo(parent, max) ==
  /\ pc \in {"idle", "scan"}
  /\ parent \in 1..Len(comments)
  /\ Cardinality({k \in 1..Len(comments) : comments[k].author # agentName}) < max
  /\ comments' = Append(comments, [post |-> comments[parent].post, parent |-> parent,
                                   author |-> otherName,
                                   content |-> Len(comments) + 1])
  /\ callQuiet' = FALSE
  /\ prevCall' = IF prevCall = "none" THEN "none" ELSE "noisy"
  /\ UNCHANGED <<store, lastPostTime, lastCommentTime, now, due, hbVars, trackHist,
                 hbHist, lastGap, callClean, sideVars>>

EnvReply(parent) == EnvReplyUpTo(parent, MaxReplies)

\* the launcher's schedule: the first cron tick comes at any time within a
\* period after the initial heartbeat, each later one a period after the last
CronTick(d) ==
  /\ pc = "idle"
  /\ ~due
  /\ d \in (IF now = 0 THEN {EarlyCron, CronPeriod} ELSE {CronPeriod})
  /\ now + d <= MaxTime
  /\ now' = now + d
  /\ due' = TRUE
  /\ UNCHANGED <<store, comments, lastPostTime, lastCommentTime, hbVars, trackHist,
                 hbHist, lastGap, callHist, sideVars>>

Next ==
  \/ \E f \in Feeds : HeartbeatStart(f)
  \/ \E o \in ScanOutcomes : ScanStep(o)
  \/ \E w \in BOOLEAN : ScanEnd(w)
  \/ \E o \in SubmitOutcomes, i \in BOOLEAN, w \in BOOLEAN : ExecStep(o, i, w)
  \/ Patrol
  \/ \E p \in 1..Len(comments) : EnvReply(p)
  \/ \E d \in {EarlyCron, CronPeriod} : CronTick(d)

Spec == Init /\ [][Next]_vars

\* ------------------------------------------------- one process per run
\* the single-heartbeat launcher (index.ts) is run again: a new process,
\* whose agent starts without lastPostTime and lastCommentTime
Launch ==
  /\ pc = "idle"
  /\ ~due
  /\ Len(tracked) < MaxTracked
  /\ due' = TRUE
  /\ lastPostTime' = NoTime
  /\ lastCommentTime' = NoTime
  /\ lastOk' = NoOk
  /\ UNCHANGED <<store, comments, now, hbVars, tracked, accepted, hbHist, lastGap,
                 callHist, sideVars>>

\* replies arrive only while the platform holds few comments
EnvReplyEarly(parent) == Len(comments) <= MaxEarly /\ EnvReply(parent)

\* the platform and the file system never fail and every answer carries its id
NextStore ==
  \/ Launch
  \/ HeartbeatStart(<<3, 2, 1>>)
  \/ ScanStep("ok")
  \/ ScanEnd(TRUE)
  \/ ExecStep("ok", TRUE, TRUE)
  \/ Patrol
  \/ \E p \in 1..Len(comments) : EnvReplyEarly(p)

SpecStore == Init /\ [][NextStore]_vars

\* ------------------------------------------------ submissions
\* the cron launcher with a platform whose feed and getPost always answer:
\* createReply, createPost and createComment succeed or fail, the answer of
\* createComment may lack the comment's id, the store file may be unwritable
NextSubmit ==
  \/ HeartbeatStart(<<3, 2, 1>>)
  \/ \E o \in {"ok", "replyErr"} : ScanStep(o)
  \/ ScanEnd(TRUE)
  \/ \E o \in SubmitOutcomes, i \in BOOLEAN, w \in BOOLEAN : ExecStep(o, i, w)
  \/ Patrol
  \/ \E p \in 1..Len(comments) : EnvReplyEarly(p)
  \/ \E d \in {EarlyCron, CronPeriod} : CronTick(d)

SpecSubmit == Init /\ [][NextSubmit]_vars

\* ------------------------------------------------ walker specification
\* every comment tree of one post with n comments: comment 1 is the root,
\* every other comment replies to an earlier one
RECURSIVE TreesOf(_)
TreesOf(n) ==
  IF n = 1
  THEN {<<[post |-> 1, parent |-> 0, author |-> a, content |-> 1]>> : a \in Authors}
  ELSE {Append(t, [post |-> 1, parent |-> p, author |-> a, content |-> n]) :
          t \in TreesOf(n - 1), p \in 1..(n - 1), a \in Authors}

SeqsOver(S) == {SetToSeq(T) : T \in SUBSET S}

InitWalk ==
  /\ \E n \in 1..MaxTreeSize : wTree \in TreesOf(n)
  /\ wSeen \in SeqsOver(2..Len(wTree))
  /\ wResult = NoReply
  /\ wDone = FALSE
  /\ wThread = <<>>
  /\ wFull = <<>>
  /\ InitAgent
  /\ InitHist
  /\ InitLiveIdle
  /\ InitAuxIdle

\* findUnansweredReply and collectThread on the root comment, and the
\* thread checkForReplies builds from them when a reply is found
Walk ==
  /\ ~wDone
  /\ wResult' = findUnansweredReply(wTree, 1, wSeen)
  /\ wThread' = collectThread(wTree, 1)
  /\ wFull' = LET unanswered == findUnansweredReply(wTree, 1, wSeen)
              IN IF unanswered = NoReply THEN <<>>
                 ELSE fullThreadOf(wTree, 1, unanswered.reply)
  /\ wDone' = TRUE
  /\ UNCHANGED <<wTree, wSeen, liveVars, auxVars, agentVars, hbVars, trackHist,
                 hbHist, lastGap, callHist>>

NextWalk == Walk

SpecWalk == InitWalk /\ [][NextWalk]_vars

\* ------------------------------------------------- one long conversation
\* The agent has commented on post 1 and tracks that comment; its process is
\* run again and again (index.ts) while other users keep replying. getPost
\* succeeds, createReply succeeds or fails, createPost is rate limited.
InitThread ==
  /\ store = trackComment(EmptyStore, 1, 1)
  /\ comments = <<[post |-> 1, parent |-> 0, author |-> agentName, content |-> 1]>>
  /\ tracked = <<<<1, 1>>>>
  /\ accepted = [post |-> 1, id |-> 1, withId |-> TRUE, written |-> TRUE]
  /\ lastOk = NoOk
  /\ lastPostTime = NoTime
  /\ lastCommentTime = NoTime
  /\ now = 0
  /\ due = TRUE
  /\ pc = "idle"
  /\ feed = <<>>
  /\ scanStore = EmptyStore
  /\ scanIdx = 0
  /\ repliesSent = 0
  /\ decisions = <<>>
  /\ hbResult = "none"
  /\ replyCalls = 0
  /\ fetches = 0
  /\ lastOutcome = "none"
  /\ limited = FALSE
  /\ scanLimited = FALSE
  /\ lateSubmit = FALSE
  /\ lastGen = NoGen
  /\ lastGap = NoTime
  /\ callQuiet = FALSE
  /\ callClean = FALSE
  /\ prevCall = "none"
  /\ InitWalkIdle
  /\ InitLiveIdle
  /\ InitAuxIdle

NextThread ==
  \/ Launch
  \/ HeartbeatStart(<<>>)
  \/ \E o \in {"ok", "replyErr"} : ScanStep(o)
  \/ ScanEnd(TRUE)
  \/ ExecStep("rate429", TRUE, TRUE)
  \/ Patrol
  \/ \E p \in 1..Len(comments) : EnvReplyUpTo(p, MaxThread)

SpecThread == InitThread /\ [][NextThread]_vars

\* ------------------------------------------- the reply scan in the long run
\* The scan of checkForReplies over an unbounded number of heartbeats, with
\* the store and the platform reduced to what the scan's choice depends on:
\* for each stored conversation, in stored order, the number of replies that
\* findUnansweredReply can still find in it. Every platform call succeeds and
\* no conversation is evicted.

\* the first conversation of the for loop whose findUnansweredReply finds a
\* reply, 0 when there is none
firstPending(p) ==
  IF \A i \in 1..Len(p) : p[i] = 0 THEN 0
  ELSE CHOOSE i \in 1..Len(p) : p[i] > 0 /\ \A j \in 1..(i - 1) : p[j] = 0

InitLive ==
  /\ pending = [i \in 1..LiveConvs |-> 0]
  /\ lastAnswered = 0
  /\ InitAgent
  /\ InitHist
  /\ InitWalkIdle
  /\ InitAuxIdle

\* a heartbeat: checkForReplies answers one reply of the first conversation
\* that has one, records it as seen and breaks
LiveCheckForReplies ==
  /\ lastAnswered' = firstPending(pending)
  /\ pending' = IF firstPending(pending) = 0 THEN pending
                ELSE [pending EXCEPT ![firstPending(pending)] = @ - 1]
  /\ UNCHANGED <<agentVars, hbVars, trackHist, hbHist, lastGap, callHist, walkVars,
                 auxVars>>

\* another user replies to a comment of the agent in conversation i
LiveReply(i) ==
  /\ pending[i] < MaxPending
  /\ pending' = [pending EXCEPT ![i] = @ + 1]
  /\ UNCHANGED <<lastAnswered, agentVars, hbVars, trackHist, hbHist, lastGap,
                 callHist, walkVars, auxVars>>

NextLive ==
  \/ LiveCheckForReplies
  \/ \E i \in 1..LiveConvs : LiveReply(i)

\* heartbeats keep being triggered
SpecLive == InitLive /\ [][NextLive]_vars /\ WF_vars(LiveCheckForReplies)

\* ------------------------------------------------------- challenge solver
\* A text is the sequence of its characters.
LowerLetters ==
  <<"a", "b", "c", "d", "e", "f", "g", "h", "i", "j", "k", "l", "m",
    "n", "o", "p", "q", "r", "s", "t", "u", "v", "w", "x", "y", "z">>
UpperLetters ==
  <<"A", "B", "C", "D", "E", "F", "G", "H", "I", "J", "K", "L", "M",
    "N", "O", "P", "Q", "R", "S", "T", "U", "V", "W", "X", "Y", "Z">>
DigitChars == <<"0", "1", "2", "3", "4", "5", "6", "7", "8", "9">>

IndexIn(s, c) == CHOOSE k \in 1..Len(s) : s[k] = c
isLower(c) == Includes(LowerLetters, c)
isUpper(c) == Includes(UpperLetters, c)
isDigit(c) == Includes(DigitChars, c)
isSpace(c) == c = " "

toLowerCase(t) ==
  [i \in 1..Len(t) |->
     IF isUpper(t[i]) THEN LowerLetters[IndexIn(UpperLetters, t[i])] ELSE t[i]]

\* String.prototype.includes
includesText(t, w) ==
  \E i \in 1..(Len(t) - Len(w) + 1) : SubSeq(t, i, i + Len(w) - 1) = w

\* String.prototype.replace(word, ''): the first occurrence is removed
replaceFirst(t, w) ==
  LET i == CHOOSE k \in 1..(Len(t) - Len(w) + 1) :
             /\ SubSeq(t, k, k + Len(w) - 1) = w
             /\ \A j \in 1..(k - 1) : SubSeq(t, j, j + Len(w) - 1) # w
  IN SubSeq(t, 1, i - 1) \o SubSeq(t, i + Len(w), Len(t))

\* A number is the fraction n / d; d = 0 stands for Infinity (n > 0),
\* -Infinity (n < 0) and NaN (n = 0), the quotients of a division by zero.
Num(n, d) == [n |-> n, d |-> d]

RECURSIVE Pow10(_)
Pow10(k) == IF k = 0 THEN 1 ELSE 10 * Pow10(k - 1)

RECURSIVE intOf(_, _, _)
intOf(t, i, j) ==
  IF j < i THEN 0 ELSE intOf(t, i, j - 1) * 10 + (IndexIn(DigitChars, t[j]) - 1)

\* the end of the run of digits that starts at i
runEnd(t, i) ==
  CHOOSE j \in i..Len(t) :
    /\ \A k \in i..j : isDigit(t[k])
    /\ (j = Len(t) \/ ~isDigit(t[j + 1]))

\* challenge.match(/\d+(?:\.\d+)?/g).map(Number)
RECURSIVE digitMatchesFrom(_, _)
digitMatchesFrom(t, i) ==
  IF i > Len(t) THEN <<>>
  ELSE IF ~isDigit(t[i]) THEN digitMatchesFrom(t, i + 1)
  ELSE LET j == runEnd(t, i)
           frac == j + 2 <= Len(t) /\ t[j + 1] = "." /\ isDigit(t[j + 2])
           k == IF frac THEN runEnd(t, j + 2) ELSE j
           value ==
             IF frac
             THEN Num(intOf(t, i, j) * Pow10(k - j - 1) + intOf(t, j + 2, k),
                      Pow10(k - j - 1))
             ELSE Num(intOf(t, i, j), 1)
       IN <<value>> \o digitMatchesFrom(t, k + 1)

digitNumbers(challenge) == digitMatchesFrom(challenge, 1)

\* replace(/\s+/g, ' ')
RECURSIVE collapse(_)
collapse(t) ==
  IF Len(t) <= 1 THEN t
  ELSE IF isSpace(t[1]) /\ isSpace(t[2]) THEN collapse(Tail(t))
  ELSE <<t[1]>> \o collapse(Tail(t))

RECURSIVE trim(_)
trim(t) ==
  IF t = <<>> THEN t
  ELSE IF isSpace(t[1]) THEN trim(Tail(t))
  ELSE IF isSpace(t[Len(t)]) THEN trim(SubSeq(t, 1, Len(t) - 1))
  ELSE t

spacedText(challenge) ==
  LET lower == toLowerCase(challenge)
      spaced == [i \in 1..Len(lower) |->
                   IF isLower(lower[i]) \/ isSpace(lower[i]) THEN lower[i] ELSE " "]
  IN trim(collapse(spaced))

\* replace(/(.)\1+/g, '$1')
RECURSIVE dedup(_)
dedup(t) ==
  IF Len(t) <= 1 THEN t
  ELSE IF t[1] = t[2] THEN dedup(Tail(t))
  ELSE <<t[1]>> \o dedup(Tail(t))

compress(challenge) == dedup(SelectSeq(toLowerCase(challenge), isLower))

tens ==
  <<
    <<<<"t", "w", "e", "n", "t", "y">>, 20>>,
    <<<<"t", "h", "i", "r", "t", "y">>, 30>>,
    <<<<"f", "o", "r", "t", "y">>, 40>>,
    <<<<"f", "i", "f", "t", "y">>, 50>>,
    <<<<"s", "i", "x", "t", "y">>, 60>>,
    <<<<"s", "e", "v", "e", "n", "t", "y">>, 70>>,
    <<<<"e", "i", "g", "h", "t", "y">>, 80>>,
    <<<<"n", "i", "n", "e", "t", "y">>, 90>>
  >>

ones ==
  <<
    <<<<"o", "n", "e">>, 1>>,
    <<<<"t", "w", "o">>, 2>>,
    <<<<"t", "h", "r", "e">>, 3>>,
    <<<<"f", "o", "u", "r">>, 4>>,
    <<<<"f", "i", "v", "e">>, 5>>,
    <<<<"s", "i", "x">>, 6>>,
    <<<<"s", "e", "v", "e", "n">>, 7>>,
    <<<<"e", "i", "g", "h", "t">>, 8>>,
    <<<<"n", "i", "n", "e">>, 9>>
  >>

compoundsUnsorted ==
  [k \in 1..(Len(tens) * Len(ones)) |->
     LET tenWord == tens[((k - 1) \div Len(ones)) + 1]
         oneWord == ones[((k - 1) % Len(ones)) + 1]
     IN <<tenWord[1] \o oneWord[1], tenWord[2] + oneWord[2]>>]

\* sort((a, b) => b[0].length - a[0].length), which is stable
RECURSIVE longestFirst(_, _)
longestFirst(list, len) ==
  IF len = 0 THEN <<>>
  ELSE LET has(e) == Len(e[1]) = len
       IN SelectSeq(list, has) \o longestFirst(list, len - 1)

longest(list) ==
  CHOOSE n \in {Len(list[k][1]) : k \in 1..Len(list)} :
    \A k \in 1..Len(list) : Len(list[k][1]) <= n

compounds == longestFirst(compoundsUnsorted, longest(compoundsUnsorted))

teens ==
  <<
    <<<<"n", "i", "n", "e", "t", "e", "n">>, 19>>,
    <<<<"e", "i", "g", "h", "t", "e", "n">>, 18>>,
    <<<<"s", "e", "v", "e", "n", "t", "e", "n">>, 17>>,
    <<<<"s", "i", "x", "t", "e", "n">>, 16>>,
    <<<<"f", "i", "f", "t", "e", "n">>, 15>>,
    <<<<"f", "o", "u", "r", "t", "e", "n">>, 14>>,
    <<<<"t", "h", "i", "r", "t", "e", "n">>, 13>>,
    <<<<"t", "w", "e", "l", "v", "e">>, 12>>,
    <<<<"e", "l", "e", "v", "e", "n">>, 11>>
  >>

units ==
  <<
    <<<<"t", "e", "n">>, 10>>,
    <<<<"n", "i", "n", "e">>, 9>>,
    <<<<"e", "i", "g", "h", "t">>, 8>>,
    <<<<"s", "e", "v", "e", "n">>, 7>>,
    <<<<"s", "i", "x">>, 6>>,
    <<<<"f", "i", "v", "e">>, 5>>,
    <<<<"f", "o", "u", "r">>, 4>>,
    <<<<"t", "h", "r", "e">>, 3>>,
    <<<<"t", "w", "o">>, 2>>,
    <<<<"o", "n", "e">>, 1>>,
    <<<<"z", "e", "r", "o">>, 0>>,
    <<<<"h", "u", "n", "d", "r", "e", "d">>, 100>>
  >>

simples == teens \o tens \o units

\* one loop of step 5, from word k on: the words the text does not include
\* leave it as it is; the next word it includes is pushed and removed once
RECURSIVE findWords(_, _, _)
findWords(list, k, st) ==
  LET hits == {j \in k..Len(list) : includesText(st.text, list[j][1])}
  IN IF hits = {} THEN st
     ELSE LET j == CHOOSE h \in hits : \A g \in hits : h <= g
          IN findWords(list, j + 1,
                       [text |-> replaceFirst(st.text, list[j][1]),
                        numbers |-> Append(st.numbers, Num(list[j][2], 1))])

numbersOf(challenge) ==
  findWords(simples, 1,
            findWords(compounds, 1, [text |-> compress(challenge),
                                     numbers |-> digitNumbers(challenge)])).numbers

opText(challenge) == spacedText(challenge) \o <<" ">> \o compress(challenge)

multiplyWords ==
  <<
    <<"p", "r", "o", "d", "u", "c", "t">>,
    <<"m", "u", "l", "t", "i", "p", "l", "i">>,
    <<"m", "u", "l", "t", "i", "p", "l", "y">>,
    <<"t", "i", "m", "e", "s">>,
    <<"m", "u", "l", "t", "i", "p", "l", "i", "e", "d">>,
    <<"t", "o", "r", "q", "u", "e">>,
    <<"w", "o", "r", "k">>,
    <<"p", "o", "w", "e", "r">>,
    <<"a", "r", "e", "a">>
  >>

divideWords ==
  <<
    <<"d", "i", "v", "i", "d", "e">>,
    <<"q", "u", "o", "t", "i", "e", "n", "t">>,
    <<"d", "i", "v", "i", "d", "e", "d">>,
    <<"s", "p", "l", "i", "t">>
  >>

subtractWords ==
  <<
    <<"d", "i", "f", "f", "e", "r", "e", "n", "c", "e">>,
    <<"s", "u", "b", "t", "r", "a", "c", "t">>,
    <<"m", "i", "n", "u", "s">>,
    <<"l", "e", "s", "s">>,
    <<"l", "o", "s", "e", "s">>,
    <<"f", "e", "w", "e", "r">>,
    <<"t", "a", "k", "e", " ", "a", "w", "a", "y">>,
    <<"s", "l", "o", "w", "s">>
  >>

hasAny(text, list) == \E k \in 1..Len(list) : includesText(text, list[k])

hasMultiply(text) ==
  \/ hasAny(text, multiplyWords)
  \/ (includesText(text, <<"f", "o", "r", "c", "e">>)
        /\ includesText(text, <<"d", "i", "s", "t", "a", "n", "c", "e">>))
hasDivide(text) == hasAny(text, divideWords)
hasSubtract(text) == hasAny(text, subtractWords)

\* the divide keywords are tried before the multiply keywords
operationDivideFirst(text) ==
  IF hasDivide(text) THEN "divide"
  ELSE IF hasMultiply(text) THEN "multiply"
  ELSE IF hasSubtract(text) THEN "subtract"
  ELSE "sum"

\* step 6; the last else-if assigns 'sum', which is the default as well
operationOf(text) ==
  IF hasMultiply(text) THEN "multiply"
  ELSE IF hasDivide(text) THEN "divide"
  ELSE IF hasSubtract(text) THEN "subtract"
  ELSE "sum"

mul(a, b) == Num(a.n * b.n, a.d * b.d)
add(a, b) == Num(a.n * b.d + b.n * a.d, a.d * b.d)
sub(a, b) == Num(a.n * b.d - b.n * a.d, a.d * b.d)
div(a, b) == Num(a.n * b.d, a.d * b.n)

RECURSIVE reduceMul(_, _)
reduceMul(list, acc) ==
  IF list = <<>> THEN acc ELSE reduceMul(Tail(list), mul(acc, Head(list)))

RECURSIVE reduceAdd(_, _)
reduceAdd(list, acc) ==
  IF list = <<>> THEN acc ELSE reduceAdd(Tail(list), add(acc, Head(list)))

\* numbers[0] || 0
firstOrZero(list) == IF list = <<>> THEN Num(0, 1) ELSE list[1]

\* step 7
calculate(list, operation) ==
  IF operation = "multiply" THEN reduceMul(list, Num(1, 1))
  ELSE IF operation = "divide"
  THEN IF Len(list) >= 2 THEN div(list[1], list[2]) ELSE firstOrZero(list)
  ELSE IF operation = "subtract"
  THEN IF Len(list) >= 2 THEN sub(list[1], list[2]) ELSE firstOrZero(list)
  ELSE reduceAdd(list, Num(0, 1))

RECURSIVE natChars(_)
natChars(k) ==
  IF k < 10 THEN <<DigitChars[k + 1]>>
  ELSE Append(natChars(k \div 10), DigitChars[(k % 10) + 1])

\* Number.prototype.toFixed(2)
toFixed2(x) ==
  IF x.d = 0
  THEN IF x.n > 0 THEN <<"I", "n", "f", "i", "n", "i", "t", "y">>
       ELSE IF x.n < 0 THEN <<"-", "I", "n", "f", "i", "n", "i", "t", "y">>
       ELSE <<"N", "a", "N">>
  ELSE LET a == IF x.n < 0 THEN -x.n ELSE x.n
           scaled == (200 * a + x.d) \div (2 * x.d)
       IN (IF x.n < 0 THEN <<"-">> ELSE <<>>)
          \o natChars(scaled \div 100)
          \o <<".", DigitChars[((scaled \div 10) % 10) + 1],
               DigitChars[(scaled % 10) + 1]>>

regexSolveChallenge(challenge) ==
  LET numbers == numbersOf(challenge)
      operation == operationOf(opText(challenge))
      result == calculate(numbers, operation)
  IN [numbers |-> numbers, operation |-> operation, answer |-> toFixed2(result)]

\* text.match(/-?\d+\.?\d*/): where the first number-like token starts, 0 if
\* there is none
tokenStart(t) ==
  LET starts == {i \in 1..Len(t) :
                   \/ isDigit(t[i])
                   \/ (t[i] = "-" /\ i < Len(t) /\ isDigit(t[i + 1]))}
  IN IF starts = {} THEN 0 ELSE CHOOSE i \in starts : \A j \in starts : i <= j

\* parseFloat of the token that starts at i
parseToken(t, i) ==
  LET neg == t[i] = "-"
      from == IF neg THEN i + 1 ELSE i
      j == runEnd(t, from)
      frac == j + 2 <= Len(t) /\ t[j + 1] = "." /\ isDigit(t[j + 2])
      k == IF frac THEN runEnd(t, j + 2) ELSE j
      whole == intOf(t, from, j)
      value == IF frac THEN whole * Pow10(k - j - 1) + intOf(t, j + 2, k) ELSE whole
  IN Num(IF neg THEN -value ELSE value, IF frac THEN Pow10(k - j - 1) ELSE 1)

NoAnswer == <<>>

\* LLMGenerator.solvePuzzle: it throws without a client, when the request
\* fails and when the response holds no number-like token
solvePuzzle(kind, text) ==
  IF kind \in {"noClient", "apiError"} \/ tokenStart(text) = 0
  THEN [threw |-> TRUE, answer |-> NoAnswer]
  ELSE [threw |-> FALSE, answer |-> toFixed2(parseToken(text, tokenStart(text)))]

NoRegex == [numbers |-> <<>>, operation |-> "none", answer |-> NoAnswer]

\* the solver's error is not caught
solveChallengeNoCatch(kind, text, challenge) ==
  IF kind # "absent"
  THEN [threw |-> solvePuzzle(kind, text).threw,
        answer |-> solvePuzzle(kind, text).answer, regex |-> NoRegex]
  ELSE LET fallback == regexSolveChallenge(challenge)
       IN [threw |-> FALSE, answer |-> fallback.answer, regex |-> fallback]

\* MoltbookClient.solveChallenge; regex is what regexSolveChallenge found when
\* it was run
solveChallenge(kind, text, challenge) ==
  IF kind # "absent" /\ ~solvePuzzle(kind, text).threw
  THEN [threw |-> FALSE, answer |-> solvePuzzle(kind, text).answer,
        regex |-> NoRegex]
  ELSE LET fallback == regexSolveChallenge(challenge)
       IN [threw |-> FALSE, answer |-> fallback.answer, regex |-> fallback]

\* ---------------------------------------------- solver specification
Words ==
  <<
    <<"t", "w", "e", "n", "t", "y">>,
    <<"t", "h", "r", "e", "e">>,
    <<"7">>,
    <<"0">>,
    <<"t", "i", "m", "e", "s">>,
    <<"d", "i", "v", "i", "d", "e", "d">>,
    <<"m", "i", "n", "u", "s">>
  >>

ObfuscatedSum == <<"T", "h", "1", "r", "r", "t", "E", "E", "n", " ", " ", " ", "p", "L", "u", "s", " ", " ", "f", "0", "u", "r", "t", "e", "E", "N">>

RECURSIVE joinWords(_)
joinWords(ws) ==
  IF ws = <<>> THEN <<>>
  ELSE IF Len(ws) = 1 THEN Words[ws[1]]
  ELSE Words[ws[1]] \o <<" ">> \o joinWords(Tail(ws))

Challenges ==
  {ObfuscatedSum}
    \cup {joinWords(ws) : ws \in UNION {[1..n -> 1..Len(Words)] : n \in 0..MaxWords}}

SolverKinds == {"absent", "noClient", "apiError", "responds"}
LLMTexts == {<<"I", "t", " ", "i", "s", " ", "-", "3", ".", "5">>, <<"n", "o", " ", "i", "d", "e", "a">>}

InitSolver ==
  /\ sChallenge \in Challenges
  /\ sSolver = "none"
  /\ sText = <<>>
  /\ sAnswer = <<>>
  /\ sThrew = FALSE
  /\ sFellBack = FALSE
  /\ sNumbers = <<>>
  /\ sOperation = "none"
  /\ sDone = FALSE
  /\ InitAgent
  /\ InitHist
  /\ InitWalkIdle
  /\ InitLiveIdle
  /\ InitCronIdle
  /\ InitServerIdle

\* solveChallenge is called once on the challenge
Solve(kind, text) ==
  /\ ~sDone
  /\ LET r == solveChallenge(kind, text, sChallenge)
     IN /\ sAnswer' = r.answer
        /\ sThrew' = r.threw
        /\ sFellBack' = (r.regex # NoRegex)
        /\ sNumbers' = r.regex.numbers
        /\ sOperation' = r.regex.operation
  /\ sSolver' = kind
  /\ sText' = text
  /\ sDone' = TRUE
  /\ UNCHANGED <<sChallenge, agentVars, hbVars, trackHist, hbHist, lastGap, callHist,
                 walkVars, liveVars, cronVars, serverVars>>

NextSolver ==
  \E kind \in SolverKinds :
    \E text \in (IF kind = "responds" THEN LLMTexts ELSE {<<>>}) : Solve(kind, text)

SpecSolver == InitSolver /\ [][NextSolver]_vars

\* ------------------------------------------------------------ launchers
\* The standalone runner awaits the first heartbeat() and then creates the
\* CronJob; the API server calls heartbeat() without awaiting it and creates
\* the CronJob at once. A heartbeat awaits the platform and the generator,
\* whose requests carry no timeout, so it settles after any delay. Whether
\* the CronJob fires while its async callback is still running is its
\* library's choice (cronWaits).
Launchers == {"runner", "server"}

InitCron ==
  /\ launcher \in Launchers
  /\ cronWaits \in BOOLEAN
  /\ mainPc = "start"
  /\ initialRunning = FALSE
  /\ cronRunning = 0
  /\ ticks = 0
  /\ InitAgent
  /\ InitHist
  /\ InitWalkIdle
  /\ InitLiveIdle
  /\ InitSolverIdle
  /\ InitServerIdle

notCron == <<agentVars, hbVars, trackHist, hbHist, lastGap, callHist, walkVars,
             liveVars, solverVars, serverVars>>

\* part_002 line 469 awaits the first heartbeat, server.ts line 726 does not
awaitsInitial(l) == l = "runner"

\* agent.heartbeat() at launch
InitialHeartbeat ==
  /\ mainPc = "start"
  /\ initialRunning' = TRUE
  /\ mainPc' = IF awaitsInitial(launcher) THEN "awaitInitial" ELSE "scheduled"
  /\ UNCHANGED <<launcher, cronRunning, cronWaits, ticks, notCron>>

\* the first heartbeat settles; the runner then creates its CronJob
InitialSettles ==
  /\ initialRunning
  /\ initialRunning' = FALSE
  /\ mainPc' = "scheduled"
  /\ UNCHANGED <<launcher, cronRunning, cronWaits, ticks, notCron>>

\* a tick of '*/30 * * * *': the callback calls agent.heartbeat()
CronFires ==
  /\ mainPc = "scheduled"
  /\ ticks < MaxTicks
  /\ cronWaits => cronRunning = 0
  /\ ticks' = ticks + 1
  /\ cronRunning' = cronRunning + 1
  /\ UNCHANGED <<launcher, mainPc, initialRunning, cronWaits, notCron>>

\* a heartbeat started by the callback settles
CronSettles ==
  /\ cronRunning > 0
  /\ cronRunning' = cronRunning - 1
  /\ UNCHANGED <<launcher, mainPc, initialRunning, cronWaits, ticks, notCron>>

NextCron == InitialHeartbeat \/ InitialSettles \/ CronFires \/ CronSettles

SpecCron == InitCron /\ [][NextCron]_vars

heartbeatsInProgress == (IF initialRunning THEN 1 ELSE 0) + cronRunning

\* ------------------------------------------------------- API access
\* URLs are lists of path segments; a raw key is its prefix and the rest
tiers == <<"free", "basic", "pro">>

\* Array.prototype.indexOf
indexOf(arr, x) == IF Includes(arr, x) THEN IndexIn(arr, x) - 1 ELSE -1

AssetsUrl == <<"api", "v1", "assets">>
LandsRawUrl == <<"api", "v1", "lands", "raw">>
LandsUrl == <<"api", "v1", "lands">>
ApiUrls == {AssetsUrl, LandsRawUrl, LandsUrl}

NoTier == "undefined"

\* TIER_ACCESS[path]
TIER_ACCESS(path) ==
  IF path = AssetsUrl THEN "basic"
  ELSE IF path = LandsRawUrl THEN "pro"
  ELSE NoTier

\* app.use('/api/', ...): the mount path of the three middlewares
MountPath == <<"api">>

\* req.path inside a middleware mounted with app.use(mount, ...): the router
\* strips the mount path from the URL while the middleware runs
pathAtMount(url, mount) == SubSeq(url, Len(mount) + 1, Len(url))

\* a digest, which differs from the raw key
hashKey(raw) == <<"sha256", raw.prefix, raw.id>>

NoRecord == [hash |-> NoHash, tier |-> "free", revoked |-> FALSE]

\* store.keys.find(k => k.hash === hash && !k.revokedAt)
findActive(ks, hash) ==
  LET hits == {i \in 1..Len(ks) : ks[i].hash = hash /\ ~ks[i].revoked}
  IN IF hits = {} THEN NoRecord ELSE ks[CHOOSE i \in hits : \A j \in hits : i <= j]

validateKey(ks, raw) == findActive(ks, hashKey(raw))

\* req.auth after authMiddleware
authMiddleware(ks, rawKey) ==
  LET record == validateKey(ks, rawKey)
  IN IF rawKey # NoKey /\ rawKey.prefix = "mna_" /\ record # NoRecord
     THEN [tier |-> record.tier, keyHash |-> record.hash]
     ELSE FreeAuth

\* tierAccessCheck: 403, or next
tierAccessCheck(auth, path) ==
  LET userLevel == indexOf(tiers, auth.tier)
      requiredTier == TIER_ACCESS(path)
  IN IF requiredTier # NoTier /\ userLevel < indexOf(tiers, requiredTier)
     THEN "403" ELSE "next"

\* the keys a request may present: none, one without the prefix, and the
\* keys the admin route hands out (issued already or not)
RawKeys ==
  {NoKey, [prefix |-> "key_", id |-> 1]}
    \cup {[prefix |-> "mna_", id |-> n] : n \in 1..MaxKeys}

\* POST /api/admin/keys with tier basic or pro
GenerateKey(tier) ==
  /\ Len(keyStore) < MaxKeys
  /\ keyStore' = Append(keyStore,
                        [hash |-> hashKey([prefix |-> "mna_", id |-> Len(keyStore) + 1]),
                         tier |-> tier, revoked |-> FALSE])
  /\ UNCHANGED <<aUrl, aKey, aAuth, aStatus>>
  /\ UNCHANGED <<agentVars, hbVars, trackHist, hbHist, lastGap, callHist, walkVars,
                 liveVars, cronVars, solverVars, landVars>>

\* DELETE /api/admin/keys/:hash
RevokeKey(i) ==
  /\ i \in 1..Len(keyStore)
  /\ findActive(keyStore, keyStore[i].hash) # NoRecord
  /\ keyStore' = [keyStore EXCEPT ![i].revoked = TRUE]
  /\ UNCHANGED <<aUrl, aKey, aAuth, aStatus>>
  /\ UNCHANGED <<agentVars, hbVars, trackHist, hbHist, lastGap, callHist, walkVars,
                 liveVars, cronVars, solverVars, landVars>>

\* a request below /api/ goes through authMiddleware, tierRateLimiter (which
\* answers 429 when the tier's window is used up) and tierAccessCheck
ApiRequest(url, rawKey, overLimit) ==
  /\ aUrl' = url
  /\ aKey' = rawKey
  /\ aAuth' = authMiddleware(keyStore, rawKey)
  /\ aStatus' = IF overLimit THEN "429"
                ELSE IF tierAccessCheck(authMiddleware(keyStore, rawKey),
                                        pathAtMount(url, MountPath)) = "403"
                THEN "403" ELSE "handler"
  /\ UNCHANGED keyStore
  /\ UNCHANGED <<agentVars, hbVars, trackHist, hbHist, lastGap, callHist, walkVars,
                 liveVars, cronVars, solverVars, landVars>>

NextAccess ==
  \/ \E tier \in {"basic", "pro"} : GenerateKey(tier)
  \/ \E i \in 1..MaxKeys : RevokeKey(i)
  \/ \E url \in ApiUrls, rawKey \in RawKeys, overLimit \in BOOLEAN :
       ApiRequest(url, rawKey, overLimit)

SpecAccess == Init /\ [][NextAccess]_vars

\* ------------------------------------------------------- land cache
notServer == <<agentVars, hbVars, trackHist, hbHist, lastGap, callHist, walkVars,
               liveVars, cronVars, solverVars>>

\* readDiskCache('lands.json', maxAge): the file, or none when it is missing
\* or older than maxAge (0: any age)
readDiskCache(disk, t, maxAge) ==
  IF disk = NoDisk THEN NoDisk
  ELSE IF maxAge # 0 /\ t - disk.timestamp > maxAge THEN NoDisk
  ELSE disk

\* the memory cache and the state of the guard after triggerBackgroundRefresh
\* is called when `stale` holds: [refreshing, calls]
triggerWhen(stale, refreshing, calls) ==
  IF stale /\ ~refreshing
  THEN [refreshing |-> TRUE, calls |-> Append(calls, "background")]
  ELSE [refreshing |-> refreshing, calls |-> calls]

\* fetchRealLands up to its first await, in the state [cache, fetched,
\* refreshing, calls]
fetchRealLandsFrom(cache, fetched, disk, refreshing, calls, t) ==
  LET diskData == readDiskCache(disk, t, 0)
  IN IF cache > 0
     THEN LET g == triggerWhen(t - fetched > CACHE_TTL, refreshing, calls)
          IN [cache |-> cache, fetched |-> fetched,
              refreshing |-> g.refreshing, calls |-> g.calls]
     ELSE IF diskData # NoDisk
     THEN LET g == triggerWhen(t - diskData.timestamp > CACHE_TTL, refreshing, calls)
          IN [cache |-> diskData.lands, fetched |-> diskData.timestamp,
              refreshing |-> g.refreshing, calls |-> g.calls]
     ELSE [cache |-> cache, fetched |-> fetched,
           refreshing |-> refreshing, calls |-> Append(calls, "blocking")]

\* the disk caches a server may find when it starts: none, a fresh one, a
\* stale one, and one older than the startup maximum
StartupDisks ==
  {NoDisk, [lands |-> 1, timestamp |-> 0], [lands |-> 1, timestamp |-> -10],
   [lands |-> 1, timestamp |-> -40], [lands |-> 0, timestamp |-> -10]}

InitLands ==
  /\ landCache = 0
  /\ lastFetch = 0
  /\ diskCache \in StartupDisks
  /\ refreshInProgress = FALSE
  /\ inFlight = <<>>
  /\ started = FALSE
  /\ clock = 0
  /\ InitAgent
  /\ InitHist
  /\ InitWalkIdle
  /\ InitLiveIdle
  /\ InitCronIdle
  /\ InitSolverIdle
  /\ InitAccessIdle

\* the app.listen callback: the startup load of the disk cache
Startup ==
  /\ ~started
  /\ started' = TRUE
  /\ LET diskStartup == readDiskCache(diskCache, clock, DISK_CACHE_MAX_AGE)
     IN IF diskStartup # NoDisk
        THEN LET g == triggerWhen(clock - diskStartup.timestamp > CACHE_TTL,
                                  refreshInProgress, inFlight)
             IN /\ landCache' = diskStartup.lands
                /\ lastFetch' = diskStartup.timestamp
                /\ refreshInProgress' = g.refreshing
                /\ inFlight' = g.calls
        ELSE LET f == fetchRealLandsFrom(landCache, lastFetch, diskCache,
                                         refreshInProgress, inFlight, clock)
             IN /\ landCache' = f.cache
                /\ lastFetch' = f.fetched
                /\ refreshInProgress' = f.refreshing
                /\ inFlight' = f.calls
  /\ UNCHANGED <<diskCache, clock, accessVars, notServer>>

\* GET /api/v1/lands or /api/v1/lands/raw: the handler calls fetchRealLands
LandsRequest ==
  /\ started
  /\ Len(inFlight) < MaxFetches
  /\ LET f == fetchRealLandsFrom(landCache, lastFetch, diskCache,
                                 refreshInProgress, inFlight, clock)
     IN /\ landCache' = f.cache
        /\ lastFetch' = f.fetched
        /\ refreshInProgress' = f.refreshing
        /\ inFlight' = f.calls
  /\ UNCHANGED <<diskCache, started, clock, accessVars, notServer>>

\* the sequence without its i-th element
RemoveAt(q, i) == SubSeq(q, 1, i - 1) \o SubSeq(q, i + 1, Len(q))

\* the i-th fetchLandsFromAPI call settles: it resolves with n lands or
\* rejects; writeOk is whether cache/lands.json can be written
FetchSettles(i, ok, n, writeOk) ==
  /\ i \in 1..Len(inFlight)
  /\ inFlight' = RemoveAt(inFlight, i)
  /\ LET fallback == readDiskCache(diskCache, clock, 0)
     IN IF ok
        THEN /\ landCache' = n
             /\ lastFetch' = clock
             /\ diskCache' = IF writeOk THEN [lands |-> n, timestamp |-> clock]
                             ELSE diskCache
        ELSE /\ UNCHANGED diskCache
             /\ IF inFlight[i] = "blocking" /\ fallback # NoDisk
                THEN landCache' = fallback.lands /\ lastFetch' = fallback.timestamp
                ELSE UNCHANGED <<landCache, lastFetch>>
  /\ refreshInProgress' = IF inFlight[i] = "background" THEN FALSE
                          ELSE refreshInProgress
  /\ UNCHANGED <<started, clock, accessVars, notServer>>

\* time passes: more than the cache's time to live
Tick ==
  /\ clock + CACHE_TTL + 1 <= MaxClock
  /\ clock' = clock + CACHE_TTL + 1
  /\ UNCHANGED <<landCache, lastFetch, diskCache, refreshInProgress, inFlight, started,
                 accessVars, notServer>>

NextLands ==
  \/ Startup
  \/ LandsRequest
  \/ \E i \in 1..MaxFetches, ok \in BOOLEAN, n \in 0..1, writeOk \in BOOLEAN :
       FetchSettles(i, ok, n, writeOk)
  \/ Tick

SpecLands == InitLands /\ [][NextLands]_vars

\* ------------------------------------------------------------ claims
RECURSIVE DepthOf(_, _)
DepthOf(cs, c) == IF cs[c].parent = 0 THEN 0 ELSE 1 + DepthOf(cs, cs[c].parent)

PreIdx(cs, root, c) ==
  CHOOSE k \in 1..Len(PreOrder(cs, root)) : PreOrder(cs, root)[k] = c

WalkCandidates == Candidates(wTree, 1, wSeen)

\* C6 (as claimed): findUnansweredReply returns a candidate of minimum depth
\* among all unanswered replies directed at the agent, and the leftmost of the
\* candidates of that depth.
C6_ShallowestLeftmost ==
  wDone =>
    IF WalkCandidates = {} THEN wResult = NoReply
    ELSE /\ wResult.reply \in WalkCandidates
         /\ \A c \in WalkCandidates :
              /\ DepthOf(wTree, wResult.reply) <= DepthOf(wTree, c)
              /\ DepthOf(wTree, c) = DepthOf(wTree, wResult.reply)
                   => PreIdx(wTree, 1, wResult.reply) <= PreIdx(wTree, 1, c)

\* C6 (amended): findUnansweredReply returns the first candidate of the
\* depth-first, left-to-right (pre-order) scan, paired with its parent; it is
\* the leftmost of the candidates of its own depth, and none when there is no
\* candidate. A shallower candidate further right does not win.
C6_FirstInPreOrder ==
  wDone =>
    IF WalkCandidates = {} THEN wResult = NoReply
    ELSE /\ wResult.reply \in WalkCandidates
         /\ wResult.parentAliceComment = wTree[wResult.reply].parent
         /\ \A c \in WalkCandidates :
              PreIdx(wTree, 1, wResult.reply) <= PreIdx(wTree, 1, c)

\* a deeper reply is returned although a shallower candidate exists
C6_Witness ==
  /\ wDone
  /\ wResult # NoReply
  /\ \E c \in WalkCandidates : DepthOf(wTree, c) < DepthOf(wTree, wResult.reply)

\* ------------------------------------------------ the thread that is built
\* the sub-thread collectThread builds below reply r has a message by the agent
subThreadHasAgent(cs, r) ==
  \E k \in 1..Len(collectThread(cs, r)) : cs[collectThread(cs, r)[k]].author = agentName

\* C21: at a comment of the collected thread that has several replies, when
\* the sub-thread of some reply contains a message by the agent the branch
\* followed is one whose sub-thread contains a message by the agent, and
\* otherwise the branch followed is the first reply by a third party.
C21_AgentBranchPreferred ==
  wDone =>
    \A k \in 1..Len(wThread) :
      LET rs == Replies(wTree, wThread[k])
      IN Len(rs) > 1 =>
           /\ k < Len(wThread)
           /\ IF \E i \in 1..Len(rs) : subThreadHasAgent(wTree, rs[i])
              THEN subThreadHasAgent(wTree, wThread[k + 1])
              ELSE wThread[k + 1] = rs[1]


\* C22: a request to /api/v1/assets reaches its handler only with the tier
\* basic or pro attached, a request to /api/v1/lands/raw only with the tier
\* pro, and a request that authMiddleware treats as free tier (no key, an
\* invalid or a revoked key) reaches the handler of neither.
C22_TierRestricted ==
  /\ (aStatus = "handler" /\ aUrl = AssetsUrl) => aAuth.tier \in {"basic", "pro"}
  /\ (aStatus = "handler" /\ aUrl = LandsRawUrl) => aAuth.tier = "pro"
  /\ (aStatus # "none" /\ aUrl \in {AssetsUrl, LandsRawUrl} /\ aAuth.tier = "free")
       => aStatus # "handler"

\* C23: when findUnansweredReply returns a pair, the reply is a direct child
\* of the parent, the parent is by the agent, the reply is not by the agent
\* and is not in seenIds; and it returns null exactly when the subtree of the
\* root comment has no such pair.
C23_SoundAndComplete ==
  wDone =>
    /\ wResult # NoReply =>
         /\ wResult.reply \in 2..Len(wTree)
         /\ wTree[wResult.reply].parent = wResult.parentAliceComment
         /\ wTree[wResult.parentAliceComment].author = agentName
         /\ wTree[wResult.reply].author # agentName
         /\ ~Includes(wSeen, wResult.reply)
    /\ (wResult = NoReply) <=> (WalkCandidates = {})

\* a pair is found below a reply to the agent that is already seen
C23_Witness ==
  /\ wDone
  /\ wResult # NoReply
  /\ \E q \in 1..Len(wSeen) :
       /\ wTree[wTree[wSeen[q]].parent].author = agentName
       /\ wTree[wSeen[q]].author # agentName
       /\ wTree[wTree[wResult.reply].parent].parent = wSeen[q]

\* C24: the thread checkForReplies builds for a reply it found (collectThread
\* and the conditional append), and so the recent messages handed to
\* generateReply, end with that reply.
C24_ThreadEndsWithReply ==
  (wDone /\ wResult # NoReply) =>
    /\ wFull[Len(wFull)] = wResult.reply
    /\ threadForLLM(wFull)[Len(threadForLLM(wFull))] = wResult.reply

\* C25: at most one fetchLandsFromAPI call is in flight at any time, and
\* refreshInProgress is false once every background refresh has settled.
C25_OneFetchInFlight ==
  /\ Len(inFlight) <= 1
  /\ refreshInProgress => \E i \in 1..Len(inFlight) : inFlight[i] = "background"

\* ------------------------------------------------ answers over heartbeats
\* the successful createReply calls made for reply r
answersTo(cs, r) ==
  Cardinality({k \in 1..Len(cs) : cs[k].author = agentName /\ cs[k].parent = r})

\* conversations.json holds r in the lastSeenReplyIds of a conversation
persisted(st, r) ==
  \E i \in 1..Len(st.conversations) : Includes(st.conversations[i].lastSeenReplyIds, r)

\* the reply the last successful createReply answered
lastAnsweredReply(cs) ==
  LET ks == {k \in 1..Len(cs) : cs[k].author = agentName /\ cs[k].parent # 0}
  IN cs[CHOOSE k \in ks : \A j \in ks : j <= k].parent

FailedCallSaves == pc = "scan" /\ pc' = "exec" /\ replyCalls >= 1 /\ repliesSent = 0

\* C27 (as claimed): a checkForReplies call that sent no reply because a step
\* of answering failed persists a store identical to the one it loaded.
C27_StoreUnchangedOnError ==
  [][FailedCallSaves => store' = store]_vars

\* C27 (amended): such a call persists the store it loaded except for the
\* summary of a conversation for which summarizeThread was called before
\* the failure: every lastSeenReplyIds, every other field and the recent
\* posts are unchanged, and a summary changes only to the one just computed.
C27_OnlySummaryChangesOnError ==
  [][FailedCallSaves =>
       /\ store'.recentPosts = store.recentPosts
       /\ Len(store'.conversations) = Len(store.conversations)
       /\ \A i \in 1..Len(store.conversations) :
            /\ store'.conversations[i] =
                 [store.conversations[i] EXCEPT
                    !.summary = store'.conversations[i].summary]
            /\ store'.conversations[i].summary # store.conversations[i].summary
                 => /\ lastGen.calls = 1
                    /\ store'.conversations[i].summary = lastGen.summarized]_vars

\* the first call has summarised the older messages, createReply has failed,
\* and the summary is in the persisted store
C27_Witness ==
  /\ pc = "exec"
  /\ now = 0
  /\ replyCalls = 1
  /\ repliesSent = 0
  /\ \E i \in 1..Len(store.conversations) : store.conversations[i].summary # NoSummary

\* C28: when a thread of n > 4 messages goes to generateReply as (recent
\* messages, summary), the recent messages are its last 2 and the summary
\* was made from exactly its first n - 2 messages, also when the stored
\* summary is reused.
C28_SummaryCoverage ==
  Len(lastGen.full) > SummaryThreshold
    => /\ lastGen.thread = recentMessages(lastGen.full)
       /\ lastGen.summary = olderMessages(lastGen.full)

\* the agent's top-level comments on post p
topLevelCommentsOn(cs, p) ==
  {k \in 1..Len(cs) : cs[k].author = agentName /\ cs[k].parent = 0 /\ cs[k].post = p}

\* C29: over any sequence of heartbeats the agent submits at most one
\* top-level comment per post: once its comment on a post is published and
\* tracked, no later top-level comment of the agent appears on that post.
C29_OneCommentPerPost ==
  \A p \in 1..Len(PostInfo) :
    \A k \in topLevelCommentsOn(comments, p) :
      Includes(tracked, <<p, k>>)
        => \A j \in topLevelCommentsOn(comments, p) : j <= k

\* C1: in a checkForReplies call createReply is invoked at most once,
\* whatever non-rate-limit errors the platform raises during the scan.
C1_AtMostOneCreateReply == replyCalls <= 1

\* C2: any two successful comment-kind submissions (createReply of
\* checkForReplies, createComment of executeAction) of one agent process are
\* more than 20 seconds apart.
C2_CommentBudget == lastGap = NoTime \/ lastGap > CommentCooldown

\* C3 (as claimed): when no reply by another author arrived since the
\* previous checkForReplies call began, the current call sends no reply.
C3_SecondCallSilent ==
  (pc = "scan" /\ prevCall \in {"good", "quiet"}) => repliesSent = 0

\* C3 (amended): when the previous checkForReplies call began with at most
\* one unanswered reply pending, none of its platform calls and store writes
\* failed, and no reply by another author arrived since it began, the current
\* call invokes createReply for no reply and returns 0.
C3_SecondCallSilentAfterClean ==
  (pc = "scan" /\ prevCall = "good") => (repliesSent = 0 /\ replyCalls = 0)

\* the second call has scanned every conversation after a first call that
\* answered a reply
C3_Witness ==
  /\ pc = "scan"
  /\ prevCall = "good"
  /\ scanIdx > Len(scanStore.conversations)
  /\ \E i \in 1..Len(scanStore.conversations) :
       scanStore.conversations[i].lastSeenReplyIds # <<>>

ConversationKeys(st) ==
  [i \in 1..Len(st.conversations) |->
     <<st.conversations[i].postId, st.conversations[i].commentId>>]

\* C4: after n trackComment calls, interleaved with trackPost and
\* checkForReplies, the persisted store holds exactly min(n, 50)
\* conversations: the most recently tracked ones, in insertion order.
C4_BoundedStore ==
  /\ Len(store.conversations) = Min(Len(tracked), StoreCap)
  /\ ConversationKeys(store) = SliceLast(tracked, StoreCap)

\* more conversations were tracked than the store keeps
C4_Witness == Len(tracked) > StoreCap /\ pc = "idle"

C7_ErrorIsolation ==
  [][/\ (fetches' = fetches + 1 /\ lastOutcome' \in {"fetchErr", "replyErr"})
          => /\ pc' = "scan"
             /\ scanIdx' = scanIdx + 1
             /\ repliesSent' = repliesSent
             /\ scanStore'.conversations[scanIdx].lastSeenReplyIds
                  = scanStore.conversations[scanIdx].lastSeenReplyIds
     /\ scanLimited => (fetches' <= fetches /\ replyCalls' <= replyCalls)]_vars

\* a failed createReply was skipped, the next conversation was tried and its
\* createReply was answered 429
C7_Witness ==
  /\ fetches = 2
  /\ replyCalls = 2
  /\ repliesSent = 0
  /\ scanLimited
  /\ lastOutcome = "reply429"

C9_NeverThrows == hbResult # "thrown"

\* a heartbeat whose body threw has ended
C9_Witness == hbResult = "caught" /\ pc = "idle"

\* C10: when several tracked conversations have unanswered replies, each of
\* them gets a reply answered on some later heartbeat, also while
\* earlier-stored conversations keep receiving new replies.
C10_EveryPendingAnswered ==
  \A i \in 1..LiveConvs : (pending[i] > 0) ~> (lastAnswered = i)

\* C11: a thread of exactly 4 messages goes to generateReply in full without
\* a summarizeThread call; a thread of exactly 5 messages of a conversation
\* without stored summary causes exactly one summarizeThread call, over its
\* first 3 messages, and its last 2 messages go to generateReply together
\* with that summary.
C11_SummaryThreshold ==
  /\ Len(lastGen.full) = 4
       => (lastGen.calls = 0 /\ lastGen.thread = lastGen.full)
  /\ (Len(lastGen.full) = 5 /\ lastGen.stored = NoSummary)
       => /\ lastGen.calls = 1
          /\ lastGen.summarized = SubSeq(lastGen.full, 1, 3)
          /\ lastGen.thread = SubSeq(lastGen.full, 4, 5)
          /\ lastGen.summary = lastGen.summarized

\* a thread of 5 messages was summarised for the first time
C11_Witness ==
  /\ Len(lastGen.full) = 5
  /\ lastGen.stored = NoSummary
  /\ lastGen.calls = 1

\* C12: with a stored summary and a thread of more than 4 messages,
\* summarizeThread is called again only if the older slice (all but the last
\* 2 messages) has grown past 4 messages since the stored summary was
\* produced; otherwise the stored summary is reused without a call.
C12_ResummarizeOnlyWhenGrown ==
  (lastGen.stored # NoSummary /\ Len(lastGen.full) > SummaryThreshold)
    => /\ lastGen.calls = 1
            <=> (/\ Len(olderMessages(lastGen.full)) > SummaryThreshold
                 /\ Len(olderMessages(lastGen.full)) > Len(lastGen.stored))
       /\ lastGen.calls = 0 => lastGen.summary = lastGen.stored

\* C13 (as claimed): every top-level comment that createComment returned
\* for has its tracked conversation.
C13_EveryCommentTracked ==
  accepted # NoAccepted
    => \E k \in 1..Len(tracked) : tracked[k] = <<accepted.post, accepted.id>>

\* C13 (amended): a conversation is appended to the store exactly in the step
\* of executeAction in which createComment returned, its answer carried the
\* comment's id and the store file was written; it is the one conversation
\* for that post and comment. No other step, a failed submission or a reply
\* of checkForReplies included, adds a conversation.
C13_TrackedExactlyOnComment ==
  [][LET got == accepted' # accepted
         new == comments'[Len(comments')]
     IN /\ (ConversationKeys(store') # ConversationKeys(store))
             <=> (got /\ accepted'.withId /\ accepted'.written)
        /\ (got /\ accepted'.withId /\ accepted'.written)
             => /\ Len(comments') = Len(comments) + 1
                /\ new.author = agentName /\ new.parent = 0
                /\ accepted'.id = Len(comments') /\ accepted'.post = new.post
                /\ store'.conversations =
                     SliceLast(Append(store.conversations,
                                      NewConversation(accepted'.post, accepted'.id)),
                               StoreCap)]_vars

\* a tracked conversation exists, a reply was sent by checkForReplies, and the
\* last comment was published without an id in the answer
C13_Witness ==
  /\ accepted # NoAccepted /\ ~accepted.withId
  /\ Len(store.conversations) = 1
  /\ \E k \in 1..Len(comments) :
       comments[k].author = agentName /\ comments[k].parent # 0

\* C14: a post is proposed only if no post has succeeded in this process or
\* more than 30 minutes have passed since the last one that did; a comment only
\* if no comment or reply has succeeded or more than 20 seconds have passed
\* since the last one that did; each gate reads its own timestamp only; and
\* the two timestamps are those of the last successes, so that a failed
\* submission leaves both as they were.
GateTimes == {NoTime} \cup {t \in {0, EarlyCron, CronPeriod, now} : t <= now}
Proposes(actions, a) == \E k \in 1..Len(actions) : actions[k].action = a

C14_Cooldowns ==
  /\ lastPostTime = lastOk.post
  /\ lastCommentTime = lastOk.comment
  /\ \A k \in 1..Len(decisions) :
       /\ decisions[k].action = "post"
            => (lastOk.post = NoTime \/ now - lastOk.post > PostCooldown)
       /\ decisions[k].action = "comment"
            => (lastOk.comment = NoTime \/ now - lastOk.comment > CommentCooldown)
  /\ pc = "scan" =>
       \A other \in GateTimes :
         /\ Proposes(decideActions(now, lastPostTime, lastCommentTime, feed), "post")
              = Proposes(decideActions(now, lastPostTime, other, feed), "post")
         /\ Proposes(decideActions(now, lastPostTime, lastCommentTime, feed), "comment")
              = Proposes(decideActions(now, other, lastCommentTime, feed), "comment")

\* a post is proposed again once its cooldown has run out, while the comment
\* is held back by the reply sent in the same heartbeat
C14_Witness ==
  /\ pc = "exec"
  /\ lastOk.post # NoTime /\ now - lastOk.post > PostCooldown
  /\ lastOk.comment = now
  /\ Len(decisions) = 1 /\ decisions[1].action = "post"

\* C15: for each launcher at most one heartbeat of the agent instance is in
\* progress at any time.
C15_NoOverlap == heartbeatsInProgress <= 1

\* C16: solveChallenge always returns an answer and never throws, and whenever
\* the generation-backed solver is absent or fails (no client, request error,
\* no number-like token in the response) the answer is the fallback's answer
\* for the same challenge.
C16_TwoTier ==
  sDone =>
    /\ ~sThrew
    /\ sAnswer # NoAnswer
    /\ (sSolver \in {"absent", "noClient", "apiError"} \/ tokenStart(sText) = 0)
         => (sFellBack /\ sAnswer = regexSolveChallenge(sChallenge).answer)
    /\ (sSolver = "responds" /\ tokenStart(sText) # 0) => ~sFellBack

\* the generator answered without a number and the fallback solved the challenge
C16_Witness ==
  /\ sDone /\ sSolver = "responds" /\ tokenStart(sText) = 0
  /\ sFellBack /\ sNumbers # <<>>

\* C17 (as claimed): when regexSolveChallenge extracts no number its answer is
\* "0.00", whichever operator it detects.
C17_ZeroWithoutNumbers ==
  (sDone /\ sFellBack /\ sNumbers = <<>>) => sAnswer = <<"0", ".", "0", "0">>

\* C18 (as claimed): for "Th1rrtEEn   pLus  f0urteEN" the fallback extracts 13
\* and 14, possibly after literal digits, detects addition and returns "27.00".
C18_ObfuscatedSum ==
  (sDone /\ sFellBack /\ sChallenge = ObfuscatedSum)
    => /\ Len(sNumbers) >= 2
       /\ SliceLast(sNumbers, 2) = <<Num(13, 1), Num(14, 1)>>
       /\ sOperation = "sum"
       /\ sAnswer = <<"2", "7", ".", "0", "0">>

\* C19: the operation is the first in the order multiply, divide, subtract
\* whose keywords occur in the normalised challenge, and addition only when
\* no keyword of those three occurs.
C19_OperatorPriority ==
  (sDone /\ sFellBack) =>
    LET text == opText(sChallenge)
    IN /\ hasMultiply(text) => sOperation = "multiply"
       /\ (~hasMultiply(text) /\ hasDivide(text)) => sOperation = "divide"
       /\ (~hasMultiply(text) /\ ~hasDivide(text) /\ hasSubtract(text))
            => sOperation = "subtract"
       /\ sOperation = "sum"
            <=> (~hasMultiply(text) /\ ~hasDivide(text) /\ ~hasSubtract(text))

\* keywords of the three categories occur and multiplication is chosen
C19_Witness ==
  /\ sDone /\ sFellBack
  /\ hasMultiply(opText(sChallenge))
  /\ hasDivide(opText(sChallenge))
  /\ hasSubtract(opText(sChallenge))
  /\ sOperation = "multiply"

\* an optional sign, digits, a point and exactly two digits
isTwoPlaceDecimal(t) ==
  LET body == IF t # <<>> /\ t[1] = "-" THEN Tail(t) ELSE t
  IN /\ Len(body) >= 4
     /\ body[Len(body) - 2] = "."
     /\ \A i \in 1..Len(body) : i # Len(body) - 2 => isDigit(body[i])

\* C20 (as claimed): whatever the numbers and the operator, division by zero
\* included, the fallback's answer is a finite decimal with exactly two
\* decimal places.
C20_TwoDecimalPlaces == (sDone /\ sFellBack) => isTwoPlaceDecimal(sAnswer)

\* the challenges made of words, as the sequence of their words
WordLists == UNION {[1..n -> 1..Len(Words)] : n \in 0..MaxWords}

\* a word of the lookup tables of step 4, in its compressed spelling
isNumberWord(w) ==
  \E k \in 1..Len(simples) : simples[k][1] = compress(w)

valueOfWord(w) ==
  LET k == CHOOSE j \in 1..Len(simples) : simples[j][1] = compress(w)
  IN Num(simples[k][2], 1)

\* the number words of a list of words, one entry per occurrence, in text order
RECURSIVE operandsOf(_)
operandsOf(ws) ==
  IF ws = <<>> THEN <<>>
  ELSE (IF isNumberWord(Words[ws[1]]) THEN <<valueOfWord(Words[ws[1]])>> ELSE <<>>)
         \o operandsOf(Tail(ws))

\* no word holds a digit, two words are number words, and an operator word
\* stands between them
isTwoOperandChallenge(ws) ==
  /\ \A i \in 1..Len(ws) : digitNumbers(Words[ws[i]]) = <<>>
  /\ Len(ws) = 3
  /\ isNumberWord(Words[ws[1]])
  /\ ~isNumberWord(Words[ws[2]])
  /\ isNumberWord(Words[ws[3]])

\* C30 (as claimed): for a challenge without digits whose two number words are
\* a and then b in the text, the fallback's number list is <<a, b>>, so that a
\* subtraction yields a - b and a division a / b.
C30_TextOrder ==
  (sDone /\ sFellBack) =>
    \A ws \in WordLists :
      (sChallenge = joinWords(ws) /\ isTwoOperandChallenge(ws)) =>
        LET ab == operandsOf(ws)
        IN /\ sNumbers = ab
           /\ sOperation = "subtract" => sAnswer = toFixed2(sub(ab[1], ab[2]))
           /\ sOperation = "divide" => sAnswer = toFixed2(div(ab[1], ab[2]))

====
